---- MODULE Spec2Model ----
(***************************************************************************)
(* doc-server (cmd/doc-server/main.go): main validates the options, opens  *)
(* the log, and calls Run.  Run generates index.html once, launches the    *)
(* directory watcher on <Dir>/api in a goroutine, and serves <Dir> over    *)
(* HTTP.  The watcher's callback regenerates index.html on every create,   *)
(* delete or rename event.                                                 *)
(*                                                                         *)
(* Text is modelled as a sequence of string tokens, so that substitution   *)
(* (strings.Replace) and truncation are computed, not assumed.             *)
(***************************************************************************)
EXTENDS Integers, Sequences, FiniteSets, TLC

\* ------------------------------------------------------------- bounds ----
\* File-system events the watcher's subscription may emit in one run.
MaxEvents == 3
\* Tokens a failed write may leave behind in index.html (0 .. MaxPartial).
MaxPartial == 1

\* ---------------------------------------------------- program constants --
maxPort == 65535

\* Ports the command line is tried with: the largest valid port and the
\* first invalid one.
Ports == {maxPort, maxPort + 1}

\* The default of the -domain flag.
Domain == "apihub.idcos.net"

\* The -dir flag, and the file names of the documents that may lie in
\* <Dir>/api, in directory-walk (lexical) order.
Dir == "/srv/doc"
DocOrder == <<"/a.json", "/b.json">>
Docs == {DocOrder[i] : i \in 1..Len(DocOrder)}

\* The substitution marker of index.tpl, and the templates index.tpl may hold.
Marker == "${baseURLs}"
Templates == {<<"<html>", Marker, "</html>">>, <<"<body>", Marker>>}

Threads == {"main", "watcher"}

\* fsnotify.FileEvent kinds (IsCreate, IsDelete, IsModify, IsRename, IsAttrib).
EventKinds == {"create", "delete", "modify", "rename", "attrib"}

VARIABLES
    Port,         \* opts.Port
    dirExisted,   \* whether opts.Dir is an existing directory
    mainPc,       \* position of main / Run
    exitCode,     \* -1 while the process lives, else the code of os.Exit
    validateErr,  \* result of opts.Validate(): "unset", "nil", "ErrPort", "ErrDir"
    logOpened,    \* initLog opened the log file
    runErr,       \* err of Run: "nil", "gen" (genIndexHTML's) or "listen"
    gen,          \* per thread: the locals of its genIndexHTML call
    watcherPc,    \* position of shfilepath.Watch
    curEvent,     \* the event the watcher's callback is handling
    events,       \* events emitted and not yet delivered to the callback
    docs,         \* documents currently in <Dir>/api
    tpl,          \* content of <Dir>/index.tpl
    indexHTML,    \* <Dir>/index.html: [exists, data]
    lastGood,     \* content written by the last successful genIndexHTML
    wgenFailed,   \* the last finished watcher-triggered genIndexHTML failed
    initGen,      \* outcome of Run's initial genIndexHTML: "pending", "ok", "err"
    doneTaken,    \* tokens the watcher received from the done channel
    doneSent,     \* sends on the done channel that completed
    emitted,      \* events emitted by the subscription so far
    delivered,    \* create/delete/rename events handed to the callback
    regens,       \* genIndexHTML calls made by the callback
    observed      \* what the last HTTP GET of /index.html read: [seen, data]

vars == <<Port, dirExisted, mainPc, exitCode, validateErr, logOpened, runErr,
          gen, watcherPc, curEvent, events, docs, tpl, indexHTML, lastGood,
          wgenFailed, initGen, doneTaken, doneSent, emitted, delivered,
          regens, observed>>

optVars   == <<Port, dirExisted>>
mainVars  == <<mainPc, exitCode, validateErr, logOpened, runErr, initGen>>
watchVars == <<watcherPc, curEvent, events, emitted, delivered, regens>>
fsVars    == <<docs, tpl>>
chanVars  == <<doneTaken, doneSent>>

\* ------------------------------------------------------ pure functions ---

\* strings.Replace(s, old, new, -1) on token sequences: every
\* non-overlapping occurrence of old, left to right.
RECURSIVE Replace(_, _, _)
Replace(s, old, new) ==
    IF Len(s) < Len(old) \/ Len(old) = 0 THEN s
    ELSE IF SubSeq(s, 1, Len(old)) = old
         THEN new \o Replace(SubSeq(s, Len(old) + 1, Len(s)), old, new)
         ELSE <<Head(s)>> \o Replace(Tail(s), old, new)

\* fmt.Sprintf("%d", opts.Port)
PortStr(p) ==
    CASE p = 80 -> "80"
      [] p = 65535 -> "65535"
      [] p = 65536 -> "65536"
      [] OTHER -> "0"

\* filepath.Join(opts.Dir, "api")
apiBasePath == <<Dir, "/api">>

\* fmt.Sprintf("http://%s:%d/api", opts.Domain, opts.Port)
baseURI(p) == <<"http://", Domain, ":", PortStr(p), "/api">>

\* A document deeper in the tree, below directories of the api directory
\* that are named like the path of the api directory itself:
\* <Dir>/api/<Dir>/api/c.json.
NestedDoc == "/srv/doc/api/c.json"
WalkOrder == DocOrder \o <<NestedDoc>>
AllDocs == {WalkOrder[i] : i \in 1..Len(WalkOrder)}

\* A document's path below the api directory, as tokens.
DocTokens(d) == IF d = NestedDoc THEN <<Dir, "/api", "/c.json">> ELSE <<d>>

\* shfilepath.ScanSwaggerDocs(apiBasePath): the documents below the api
\* directory and its descendants, as paths, in walk order.
RECURSIVE WalkFrom(_, _)
WalkFrom(i, S) ==
    IF i > Len(WalkOrder) THEN <<>>
    ELSE (IF WalkOrder[i] \in S
          THEN <<apiBasePath \o DocTokens(WalkOrder[i])>> ELSE <<>>)
         \o WalkFrom(i + 1, S)

ScanSwaggerDocs(S) == WalkFrom(1, S)

\* the loop body of genSelectHTML: one option per path
OptionHTML(p, path) ==
    LET val == Replace(path, apiBasePath, baseURI(p))
    IN  <<"<option value=">> \o val \o <<">">> \o val \o <<"</option>">>

RECURSIVE OptionsHTML(_, _)
OptionsHTML(p, paths) ==
    IF paths = <<>> THEN <<>>
    ELSE OptionHTML(p, Head(paths)) \o OptionsHTML(p, Tail(paths))

genSelectHTML(p, paths) ==
    <<"<select>">> \o OptionsHTML(p, paths) \o <<"</select>">>

\* The substitution losing the template's text after the marker.
RECURSIVE RenderHTMLDropTail(_, _, _)
RenderHTMLDropTail(p, tplData, paths) ==
    IF tplData = <<>> THEN <<>>
    ELSE IF Head(tplData) = Marker THEN genSelectHTML(p, paths)
    ELSE <<Head(tplData)>> \o RenderHTMLDropTail(p, Tail(tplData), paths)

\* html of genIndexHTML: the template with the marker replaced
RenderHTML(p, tplData, paths) ==
    Replace(tplData, <<Marker>>, genSelectHTML(p, paths))

\* Validate with its two checks in the other order.
ValidateDirFirst(p, dirOk) ==
    IF ~dirOk THEN "ErrDir"
    ELSE IF p > maxPort THEN "ErrPort"
    ELSE "nil"

\* opts.Validate()
Validate(p, dirOk) ==
    IF p > maxPort THEN "ErrPort"
    ELSE IF ~dirOk THEN "ErrDir"
    ELSE "nil"

\* The callback's condition with IsModify added, and with IsRename left out.
IsStructuralOrModify(ev) == ev \in {"create", "delete", "rename", "modify"}
IsStructuralNoRename(ev) == ev \in {"create", "delete"}

\* the callback's condition: event.IsCreate() || event.IsDelete() || event.IsRename()
IsStructural(ev) == ev \in {"create", "delete", "rename"}

\* ------------------------------------------------------------- state -----

IdleGen == [pc |-> "idle", tplData |-> <<>>, paths |-> <<>>]

NoFile == [exists |-> FALSE, data |-> <<>>]

Init ==
    /\ Port \in Ports
    /\ dirExisted \in BOOLEAN
    /\ mainPc = "validate"
    /\ exitCode = -1
    /\ validateErr = "unset"
    /\ logOpened = FALSE
    /\ runErr = "nil"
    /\ gen = [t \in Threads |-> IdleGen]
    /\ watcherPc = "notstarted"
    /\ curEvent = "none"
    /\ events = <<>>
    /\ docs \in SUBSET Docs
    /\ tpl \in Templates
    /\ indexHTML = NoFile
    /\ lastGood = <<>>
    /\ wgenFailed = FALSE
    /\ initGen = "pending"
    /\ doneTaken = 0
    /\ doneSent = 0
    /\ emitted = 0
    /\ delivered = 0
    /\ regens = 0
    /\ observed = [seen |-> FALSE, data |-> <<>>]

\* The process is alive and inside Run.
InRun == exitCode = -1 /\ mainPc \in {"gen", "go", "listen", "serving", "sending"}

\* ------------------------------------------------------------- main ------

\* main: opts.Validate(), os.Exit(1) on error
MainValidate ==
    /\ mainPc = "validate" /\ exitCode = -1
    /\ validateErr' = Validate(Port, dirExisted)
    /\ IF validateErr' # "nil"
       THEN mainPc' = "exited" /\ exitCode' = 1
       ELSE mainPc' = "initlog" /\ exitCode' = exitCode
    /\ UNCHANGED <<optVars, logOpened, runErr, initGen, gen, watchVars, fsVars,
                   indexHTML, lastGood, wgenFailed, chanVars, observed>>

\* main: initLog(opts.LogFile), os.Exit(2) on error; otherwise Run is called
\* and enters its initial genIndexHTML
MainInitLog ==
    /\ mainPc = "initlog" /\ exitCode = -1
    /\ \E ok \in BOOLEAN :
         IF ok
         THEN /\ logOpened' = TRUE
              /\ mainPc' = "gen"
              /\ gen' = [gen EXCEPT !["main"].pc = "read"]
              /\ exitCode' = exitCode
         ELSE /\ logOpened' = FALSE
              /\ mainPc' = "exited"
              /\ exitCode' = 2
              /\ gen' = gen
    /\ UNCHANGED <<optVars, validateErr, runErr, initGen, watchVars, fsVars,
                   indexHTML, lastGood, wgenFailed, chanVars, observed>>

\* ------------------------------------------------------ genIndexHTML -----

\* The subscription on the watched directory is established.
Subscribed == watcherPc \in {"idle", "callback", "generating"}

\* The subscription, once established, queues the events of a change.
Emit(evs) ==
    IF Subscribed
    THEN /\ emitted + Len(evs) <= MaxEvents
         /\ events' = events \o evs
         /\ emitted' = emitted + Len(evs)
    ELSE UNCHANGED <<events, emitted>>

\* path lies in the directory dir or below it.
Under(path, dir) ==
    Len(path) > Len(dir) /\ SubSeq(path, 1, Len(dir)) = dir

\* The watcher subscribed to the whole served tree.
WatchedPathWholeTree == <<Dir>>

\* the path Run hands to Watch: apiBasePath := filepath.Join(opts.Dir, "api")
WatchedPath == apiBasePath

\* indexHTML := filepath.Join(opts.Dir, "index.html")
indexHTMLPath == <<Dir, "/index.html">>

\* the events of genIndexHTML's own write to index.html: none unless
\* index.html lies in the watched directory
OwnWriteEvents(evs) ==
    IF Under(indexHTMLPath, WatchedPath)
    THEN Emit(evs)
    ELSE UNCHANGED <<events, emitted>>

\* index.tpl read once and kept, instead of on every call.
LoadTemplateOnce == <<"<html>", Marker, "</html>">>

\* tplData, err := ioutil.ReadFile(indexTPL)
LoadTemplate == tpl

\* index.html opened for appending: the old content stays.
KeptData(old) == old

\* ioutil.WriteFile opens with O_TRUNC: the old content is gone
TruncatedData(old) == <<>>

\* Run going on after the initial genIndexHTML whatever it returned.
AfterInitialGenIgnoreErr(ok) == "go"

\* Run: if err = genIndexHTML(opts, logger); err != nil { return err }
AfterInitialGen(ok) == IF ok THEN "go" ELSE "returned"

\* genIndexHTML returns to its caller: Run keeps the initial call's error;
\* the watcher's callback drops it.
GenReturn(t, ok) ==
    /\ gen' = [gen EXCEPT ![t] = IdleGen]
    /\ IF t = "main"
       THEN /\ initGen' = IF ok THEN "ok" ELSE "err"
            /\ runErr' = IF ok THEN runErr ELSE "gen"
            /\ mainPc' = AfterInitialGen(ok)
            /\ UNCHANGED <<watcherPc, curEvent, wgenFailed>>
       ELSE /\ watcherPc' = "idle"
            /\ curEvent' = "none"
            /\ wgenFailed' = ~ok
            /\ UNCHANGED <<initGen, runErr, mainPc>>
    /\ UNCHANGED <<optVars, exitCode, validateErr, logOpened, delivered, regens,
                   fsVars, chanVars, observed>>

\* ioutil.ReadFile(indexTPL)
GenRead(t) ==
    /\ exitCode = -1
    /\ gen[t].pc = "read"
    /\ \E ok \in BOOLEAN :
         IF ok
         THEN /\ gen' = [gen EXCEPT ![t].pc = "scan", ![t].tplData = LoadTemplate]
              /\ UNCHANGED <<optVars, mainVars, watchVars, fsVars, wgenFailed,
                             chanVars, observed>>
         ELSE GenReturn(t, FALSE)
    /\ UNCHANGED <<indexHTML, lastGood, events, emitted>>

\* shfilepath.ScanSwaggerDocs(apiBasePath)
GenScan(t) ==
    /\ exitCode = -1
    /\ gen[t].pc = "scan"
    /\ \E ok \in BOOLEAN :
         IF ok
         THEN /\ gen' = [gen EXCEPT ![t].pc = "open",
                                    ![t].paths = ScanSwaggerDocs(docs)]
              /\ UNCHANGED <<optVars, mainVars, watchVars, fsVars, wgenFailed,
                             chanVars, observed>>
         ELSE GenReturn(t, FALSE)
    /\ UNCHANGED <<indexHTML, lastGood, events, emitted>>

\* ioutil.WriteFile, first half: os.OpenFile(indexHTML, O_WRONLY|O_CREATE|O_TRUNC)
GenOpen(t) ==
    /\ exitCode = -1
    /\ gen[t].pc = "open"
    /\ \E ok \in BOOLEAN :
         IF ok
         THEN /\ gen' = [gen EXCEPT ![t].pc = "write"]
              /\ indexHTML' = [exists |-> TRUE,
                               data |-> TruncatedData(indexHTML.data)]
              /\ OwnWriteEvents(<<IF indexHTML.exists THEN "modify" ELSE "create">>)
              /\ UNCHANGED <<optVars, mainVars, watcherPc, curEvent, delivered,
                             regens, fsVars, wgenFailed, chanVars, observed>>
         ELSE /\ GenReturn(t, FALSE)
              /\ indexHTML' = indexHTML
              /\ UNCHANGED <<events, emitted>>
    /\ UNCHANGED lastGood

\* What a write of html that fails part-way may leave in the file.
PartialWrites(html) ==
    {SubSeq(html, 1, k) : k \in 0..(IF Len(html) - 1 < MaxPartial
                                    THEN Len(html) - 1 ELSE MaxPartial)}

\* ioutil.WriteFile, second half: f.Write(data), f.Close()
GenWrite(t) ==
    /\ exitCode = -1
    /\ gen[t].pc = "write"
    /\ LET html == RenderHTML(Port, gen[t].tplData, gen[t].paths)
       IN  \/ /\ indexHTML' = [exists |-> TRUE, data |-> indexHTML.data \o html]
              /\ lastGood' = indexHTML'.data
              /\ OwnWriteEvents(<<"modify">>)
              /\ GenReturn(t, TRUE)
           \/ /\ \E part \in PartialWrites(html) :
                    indexHTML' = [exists |-> TRUE, data |-> indexHTML.data \o part]
              /\ lastGood' = lastGood
              /\ OwnWriteEvents(<<"modify">>)
              /\ GenReturn(t, FALSE)

genIndexHTML(t) == GenRead(t) \/ GenScan(t) \/ GenOpen(t) \/ GenWrite(t)

\* -------------------------------------------------------------- Run ------

\* The watcher launched while the initial genIndexHTML is still running.
CanGoWatchEarly == mainPc \in {"gen", "go"}

\* Run reaches `go shfilepath.Watch(...)` only after the initial
\* genIndexHTML returned nil and the deferred send was registered.
CanGoWatch == mainPc = "go"

\* done := make(chan struct{}); defer func() { done <- struct{}{} }();
\* go shfilepath.Watch(logger, done, apiBasePath, callback)
RunGoWatch ==
    /\ exitCode = -1
    /\ CanGoWatch
    /\ watcherPc = "notstarted"
    /\ watcherPc' = "starting"
    /\ mainPc' = "listen"
    /\ UNCHANGED <<optVars, exitCode, validateErr, logOpened, runErr, initGen,
                   gen, curEvent, events, emitted, delivered, regens, fsVars,
                   indexHTML, lastGood, wgenFailed, chanVars, observed>>

\* Run waiting for the watcher's subscription before it listens.
CanListenOnceSubscribed == mainPc = "listen" /\ watcherPc \in {"idle", "callback", "generating"}

\* ListenAndServe returning without an error.
ListenErrNil == "nil"

\* http.ListenAndServe always returns a non-nil error
ListenErr == "listen"

\* Run reaches http.ListenAndServe whatever became of the watcher goroutine.
CanListen == mainPc = "listen"

\* http.ListenAndServe: the listener is bound and accepts connections, or
\* fails at once with an error
RunListen ==
    /\ exitCode = -1
    /\ CanListen
    /\ \E ok \in BOOLEAN :
         IF ok THEN mainPc' = "serving" /\ runErr' = runErr
               ELSE mainPc' = "sending" /\ runErr' = ListenErr
    /\ UNCHANGED <<optVars, exitCode, validateErr, logOpened, initGen, gen,
                   watchVars, fsVars, indexHTML, lastGood, wgenFailed, chanVars,
                   observed>>

\* http.ListenAndServe returns its error while serving; Run's deferred
\* function runs next
RunServeStop ==
    /\ exitCode = -1
    /\ mainPc = "serving"
    /\ mainPc' = "sending"
    /\ runErr' = ListenErr
    /\ UNCHANGED <<optVars, exitCode, validateErr, logOpened, initGen, gen,
                   watchVars, fsVars, indexHTML, lastGood, wgenFailed, chanVars,
                   observed>>

\* The watcher is blocked in its loop waiting for an event or for done.
WatcherReceives == watcherPc = "idle"

\* done made with a buffer: the send completes with nobody receiving.
DoneSendBuffered == TRUE

\* done is unbuffered (make(chan struct{})): the deferred send completes
\* only together with a receive.
DoneSendCompletes == WatcherReceives

\* the deferred `done <- struct{}{}`, and with it Watch's receive from done:
\* the watcher leaves its loop and closes the subscription
RunDeferSend ==
    /\ exitCode = -1
    /\ mainPc = "sending"
    /\ DoneSendCompletes
    /\ doneSent' = doneSent + 1
    /\ mainPc' = "returned"
    /\ IF WatcherReceives
       THEN watcherPc' = "stopped" /\ doneTaken' = doneTaken + 1
       ELSE UNCHANGED <<watcherPc, doneTaken>>
    /\ UNCHANGED <<optVars, exitCode, validateErr, logOpened, runErr, initGen,
                   gen, curEvent, events, emitted, delivered, regens, fsVars,
                   indexHTML, lastGood, wgenFailed, observed>>

\* main: Run returned; os.Exit(3) when err != nil, else main returns
MainExit ==
    /\ exitCode = -1
    /\ mainPc = "returned"
    /\ mainPc' = "exited"
    /\ exitCode' = IF runErr # "nil" THEN 3 ELSE 0
    /\ UNCHANGED <<optVars, validateErr, logOpened, runErr, initGen, gen,
                   watchVars, fsVars, indexHTML, lastGood, wgenFailed, chanVars,
                   observed>>

\* ------------------------------------------------- shfilepath.Watch ------

\* Watch subscribes to apiBasePath; if that fails the watcher ends
WatchSubscribe ==
    /\ exitCode = -1
    /\ watcherPc = "starting"
    /\ \E ok \in BOOLEAN : watcherPc' = IF ok THEN "idle" ELSE "failed"
    /\ UNCHANGED <<optVars, mainVars, gen, curEvent, events, emitted, delivered,
                   regens, fsVars, indexHTML, lastGood, wgenFailed, chanVars,
                   observed>>

\* Watch's loop takes the next event and calls the callback with it
WatchDeliver ==
    /\ exitCode = -1
    /\ watcherPc = "idle"
    /\ events # <<>>
    /\ curEvent' = Head(events)
    /\ events' = Tail(events)
    /\ watcherPc' = "callback"
    /\ delivered' = delivered +
                    (IF Head(events) \in {"create", "delete", "rename"} THEN 1 ELSE 0)
    /\ UNCHANGED <<optVars, mainVars, gen, emitted, regens, fsVars, indexHTML,
                   lastGood, wgenFailed, chanVars, observed>>

\* the callback Run hands to Watch:
\*   if event.IsCreate() || event.IsDelete() || event.IsRename() { genIndexHTML(opts, logger) }
Callback ==
    /\ exitCode = -1
    /\ watcherPc = "callback"
    /\ IF IsStructural(curEvent)
       THEN /\ gen' = [gen EXCEPT !["watcher"].pc = "read"]
            /\ regens' = regens + 1
            /\ watcherPc' = "generating"
            /\ curEvent' = curEvent
       ELSE /\ watcherPc' = "idle"
            /\ curEvent' = "none"
            /\ UNCHANGED <<gen, regens>>
    /\ UNCHANGED <<optVars, mainVars, events, emitted, delivered, fsVars,
                   indexHTML, lastGood, wgenFailed, chanVars, observed>>

\* ------------------------------------------------------ environment ------

FsFrame ==
    UNCHANGED <<optVars, mainVars, gen, watcherPc, curEvent, delivered, regens,
                tpl, indexHTML, lastGood, wgenFailed, chanVars, observed>>

\* a document is created in <Dir>/api
FsCreate ==
    /\ InRun
    /\ \E d \in Docs \ docs : docs' = docs \cup {d}
    /\ Emit(<<"create">>)
    /\ FsFrame

\* a document is deleted from <Dir>/api
FsDelete ==
    /\ InRun
    /\ \E d \in docs : docs' = docs \ {d}
    /\ Emit(<<"delete">>)
    /\ FsFrame

\* a document is renamed within <Dir>/api: a rename event for the old name
\* and a create event for the new one
FsRename ==
    /\ InRun
    /\ \E d \in docs : \E e \in Docs \ docs : docs' = (docs \ {d}) \cup {e}
    /\ Emit(<<"rename", "create">>)
    /\ FsFrame

\* a document is edited in place, or its metadata changes
FsTouch ==
    /\ InRun
    /\ docs # {}
    /\ docs' = docs
    /\ \E k \in {"modify", "attrib"} : Emit(<<k>>)
    /\ FsFrame

\* index.tpl is edited
TplEdit ==
    /\ InRun
    /\ \E t \in Templates \ {tpl} : tpl' = t
    /\ UNCHANGED <<optVars, mainVars, gen, watchVars, docs, indexHTML, lastGood,
                   wgenFailed, chanVars, observed>>

\* an HTTP client GETs /index.html from the file server
HttpGet ==
    /\ exitCode = -1
    /\ mainPc = "serving"
    /\ observed' = [seen |-> TRUE, data |-> indexHTML.data]
    /\ UNCHANGED <<optVars, mainVars, gen, watchVars, fsVars, indexHTML,
                   lastGood, wgenFailed, chanVars>>

\* ------------------------------------------------------ specification ----

Next ==
    \/ MainValidate
    \/ MainInitLog
    \/ \E t \in Threads : genIndexHTML(t)
    \/ RunGoWatch
    \/ RunListen
    \/ RunServeStop
    \/ RunDeferSend
    \/ MainExit
    \/ WatchSubscribe
    \/ WatchDeliver
    \/ Callback
    \/ FsCreate
    \/ FsDelete
    \/ FsRename
    \/ FsTouch
    \/ TplEdit
    \/ HttpGet

Spec == Init /\ [][Next]_vars

\* ------------------------------------------------------------ claims -----

\* The complete landing pages: the renderings of a template over a document set.
IsComplete(html) ==
    \E t \in Templates : \E S \in SUBSET Docs :
        html = RenderHTML(Port, t, ScanSwaggerDocs(S))

\* html lists exactly the documents of S.
HasEntriesOf(html, S) ==
    \E t \in Templates : html = RenderHTML(Port, t, ScanSwaggerDocs(S))

\* http.ListenAndServe has been called.
ListenerStarted == mainPc = "serving" \/ runErr = "listen"

\* C1: no two executions of genIndexHTML overlap: the initial generation is
\* over before the watcher is launched, and the watcher's loop takes the next
\* event only when the generation of the previous one has returned.
C1_NoOverlap ==
    /\ ~(gen["main"].pc # "idle" /\ gen["watcher"].pc # "idle")
    /\ (watcherPc # "notstarted" => gen["main"].pc = "idle" /\ initGen # "pending")
    /\ (watcherPc \in {"idle", "callback"} => gen["watcher"].pc = "idle")

\* a second regeneration is running while a further event waits its turn
C1_Witness ==
    /\ gen["watcher"].pc = "write"
    /\ regens = 2
    /\ events # <<>>

\* C2 (as claimed): once the watcher is subscribed and idle, no event is
\* pending and no regeneration failed, index.html lists exactly the
\* documents now in the api directory.
C2_Original ==
    (exitCode = -1 /\ watcherPc = "idle" /\ events = <<>> /\ ~wgenFailed
       /\ mainPc \in {"listen", "serving"})
    => HasEntriesOf(indexHTML.data, docs)

\* C3 (as claimed): after a watcher-triggered genIndexHTML failed, Run has
\* not taken its error, and index.html holds the content of the last
\* successful generation.
C3_Original ==
    (wgenFailed /\ gen["watcher"].pc = "idle")
    => (runErr # "gen" /\ indexHTML.data = lastGood)

\* C4 (as claimed): whatever an HTTP GET of /index.html reads is a complete
\* landing page.
C4_Original == observed.seen => IsComplete(observed.data)

\* C5: the watcher and the listener are started, and done is sent on, only
\* after the initial genIndexHTML succeeded, so index.html exists whenever
\* connections are accepted; if it failed, Run returned its error with the
\* watcher never launched, nothing sent on done and the listener never started.
C5_StartupOrder ==
    /\ (watcherPc # "notstarted" \/ ListenerStarted \/ doneSent > 0)
         => initGen = "ok"
    /\ (mainPc = "serving" \/ observed.seen) => indexHTML.exists
    /\ initGen = "err"
         => /\ mainPc \in {"returned", "exited"}
            /\ runErr = "gen"
            /\ watcherPc = "notstarted"
            /\ doneSent = 0
            /\ ~ListenerStarted

\* the initial generation failed at its write and the process left with code 3
C5_Witness ==
    /\ initGen = "err"
    /\ exitCode = 3
    /\ indexHTML.exists

\* C6: Run returns from a shutdown only after the watcher took the token:
\* one token is sent, after the listener returned, and Run has returned only
\* if the watcher received it.
C6_ShutdownHandshake ==
    /\ doneSent <= 1
    /\ doneTaken <= doneSent
    /\ (doneSent > 0 => runErr = "listen")
    /\ (runErr = "listen" /\ mainPc \in {"returned", "exited"})
         => (doneSent = 1 /\ doneTaken = 1 /\ watcherPc = "stopped")

\* Run has returned the listener's error after the handshake
C6_Witness ==
    /\ mainPc = "returned"
    /\ runErr = "listen"
    /\ doneTaken = 1

\* C7: an event that is neither create, delete nor rename starts no
\* genIndexHTML and leaves index.html as it is; a watcher-triggered
\* generation only ever runs for a create, delete or rename event.
C7_ModifyIgnored ==
    /\ [](gen["watcher"].pc # "idle" => curEvent \in {"create", "delete", "rename"})
    /\ [][(watcherPc = "callback" /\ curEvent \notin {"create", "delete", "rename"})
            => (/\ gen'["watcher"].pc = "idle"
                /\ regens' = regens
                /\ indexHTML' = indexHTML)]_vars

\* two modify/attrib events were emitted and handled, and nothing regenerated
C7_Witness ==
    /\ watcherPc = "idle"
    /\ emitted = 2
    /\ events = <<>>
    /\ delivered = 0
    /\ regens = 0

\* C8: every create, delete or rename event handed to the callback has
\* started exactly one genIndexHTML: the regenerations number the events
\* delivered, less the one whose callback has not yet reached its call.
C8_NoCoalescing ==
    regens = delivered -
             (IF watcherPc = "callback" /\ curEvent \in {"create", "delete", "rename"}
              THEN 1 ELSE 0)

\* a burst: all events of the run were queued before the first was handled,
\* and each got its regeneration
C8_Witness ==
    /\ watcherPc = "idle"
    /\ events = <<>>
    /\ emitted = MaxEvents
    /\ delivered = MaxEvents
    /\ regens = MaxEvents

\* C9: when the watcher's subscription fails, Run still starts the listener
\* and the process lives on, no regeneration ever runs, and index.html (and
\* whatever a client reads) is the page of the initial generation.
C9_WatcherFailureIsolated ==
    watcherPc = "failed"
    => /\ exitCode = -1
       /\ runErr # "gen"
       /\ (mainPc = "listen" => ENABLED RunListen)
       /\ mainPc \in {"listen", "serving", "sending"}
       /\ regens = 0
       /\ gen["watcher"].pc = "idle"
       /\ indexHTML = [exists |-> TRUE, data |-> lastGood]
       /\ IsComplete(lastGood)
       /\ (observed.seen => observed.data = lastGood)

\* the subscription failed, documents changed, and the server serves the
\* initial page
C9_Witness ==
    /\ watcherPc = "failed"
    /\ mainPc = "serving"
    /\ observed.seen
    /\ ~HasEntriesOf(indexHTML.data, docs)

\* C10: Validate returns ErrPort when Port > 65535, otherwise ErrDir when Dir
\* is no existing directory, otherwise nil; a validation error exits with 1
\* before the log is opened or Run is called, a log error exits with 2 before
\* Run is called, and an error from Run exits with 3.
C10_ExitCodes ==
    /\ (validateErr # "unset"
          => validateErr = (IF Port > 65535 THEN "ErrPort"
                            ELSE IF ~dirExisted THEN "ErrDir" ELSE "nil"))
    /\ (validateErr \in {"ErrPort", "ErrDir"} <=> exitCode = 1)
    /\ (exitCode = 1 => ~logOpened /\ initGen = "pending" /\ gen["main"].pc = "idle")
    /\ (exitCode = 2
          => validateErr = "nil" /\ ~logOpened /\ initGen = "pending"
             /\ gen["main"].pc = "idle")
    /\ (exitCode \in {1, 2} => watcherPc = "notstarted" /\ ~ListenerStarted
                               /\ ~indexHTML.exists)
    /\ (exitCode = 3 => validateErr = "nil" /\ logOpened /\ runErr # "nil")
    /\ (mainPc = "exited" /\ runErr # "nil" => exitCode = 3)
    /\ (mainPc = "exited" /\ validateErr = "nil" /\ ~logOpened => exitCode = 2)

\* the port is too large and the directory is missing: ErrPort, exit code 1
C10_Witness ==
    /\ Port > 65535
    /\ ~dirExisted
    /\ validateErr = "ErrPort"
    /\ exitCode = 1

\* ------------------------------------------- genIndexHTML, run twice -----

\* The program with index.tpl and the api directory left alone from the
\* first regeneration on: every change falls before the callback's first
\* genIndexHTML call, so the regenerations of one burst of events all see
\* the same template and the same document set.
SettledNext ==
    \/ MainValidate
    \/ MainInitLog
    \/ \E t \in Threads : genIndexHTML(t)
    \/ RunGoWatch
    \/ RunListen
    \/ WatchSubscribe
    \/ WatchDeliver
    \/ Callback
    \/ (regens = 0 /\ FsCreate)
    \/ (regens = 0 /\ FsDelete)
    \/ (regens = 0 /\ FsRename)
    \/ (regens = 0 /\ TplEdit)

SettledSpec == Init /\ [][SettledNext]_vars

\* C11: genIndexHTML is idempotent: a regeneration that succeeds after an
\* earlier successful regeneration, with index.tpl and the api directory
\* unchanged since before the earlier one began, leaves index.html with the
\* very content the earlier one wrote.
C11_Idempotent ==
    [][(/\ gen["watcher"].pc = "write"
        /\ regens >= 2
        /\ ~wgenFailed
        /\ gen'["watcher"].pc = "idle"
        /\ ~wgenFailed')
       => indexHTML'.data = lastGood]_vars

\* three regenerations of one burst have run, the last one successfully, and
\* the page lists both documents
C11_Witness ==
    /\ regens = 3
    /\ watcherPc = "idle"
    /\ ~wgenFailed
    /\ docs = Docs
    /\ indexHTML.data = RenderHTML(Port, tpl, ScanSwaggerDocs(docs))

\* ------------------------------------- genIndexHTML over deeper trees ----

\* Run has just been called (the state main leaves behind after initLog),
\* with any of the documents, the nested one included, in the api directory.
RenderInit ==
    /\ Port \in {80, maxPort}
    /\ dirExisted = TRUE
    /\ mainPc = "gen"
    /\ exitCode = -1
    /\ validateErr = "nil"
    /\ logOpened = TRUE
    /\ runErr = "nil"
    /\ gen = [t \in Threads |-> IF t = "main" THEN [IdleGen EXCEPT !.pc = "read"]
                                               ELSE IdleGen]
    /\ watcherPc = "notstarted"
    /\ curEvent = "none"
    /\ events = <<>>
    /\ docs \in SUBSET AllDocs
    /\ tpl \in Templates
    /\ indexHTML = NoFile
    /\ lastGood = <<>>
    /\ wgenFailed = FALSE
    /\ initGen = "pending"
    /\ doneTaken = 0
    /\ doneSent = 0
    /\ emitted = 0
    /\ delivered = 0
    /\ regens = 0
    /\ observed = [seen |-> FALSE, data |-> <<>>]

\* the initial genIndexHTML call, step by step
RenderNext == genIndexHTML("main")

RenderSpec == RenderInit /\ [][RenderNext]_vars

\* The template's text before and after its (first) marker.
RECURSIVE MarkerAt(_, _)
MarkerAt(t, i) ==
    IF i > Len(t) THEN 0
    ELSE IF t[i] = Marker THEN i ELSE MarkerAt(t, i + 1)

BeforeMarker(t) == SubSeq(t, 1, MarkerAt(t, 1) - 1)
AfterMarker(t) == SubSeq(t, MarkerAt(t, 1) + 1, Len(t))

\* The public URL of a scanned path: the leading <Dir>/api replaced by
\* http://<domain>:<port>/api, the rest of the path kept.
PublicURL(p, path) ==
    <<"http://", Domain, ":", PortStr(p), "/api">>
    \o SubSeq(path, Len(apiBasePath) + 1, Len(path))

\* One option per path, in the order of the list, value and label the URL.
RECURSIVE ExpectedOptions(_, _)
ExpectedOptions(p, paths) ==
    IF paths = <<>> THEN <<>>
    ELSE <<"<option value=">> \o PublicURL(p, Head(paths)) \o <<">">>
         \o PublicURL(p, Head(paths)) \o <<"</option>">>
         \o ExpectedOptions(p, Tail(paths))

ExpectedSelect(p, paths) ==
    <<"<select>">> \o ExpectedOptions(p, paths) \o <<"</select>">>

\* C12 (as claimed): the select element genSelectHTML renders, as it lands
\* in index.html, holds one option per scanned path, in order, each with the
\* URL made by replacing only the leading <Dir>/api of the path.
C12_Original ==
    [][(gen["main"].pc = "write" /\ initGen' = "ok")
       => indexHTML'.data = BeforeMarker(gen["main"].tplData)
                            \o ExpectedSelect(Port, gen["main"].paths)
                            \o AfterMarker(gen["main"].tplData)]_vars

\* genIndexHTML, called by thread t, returns nil in this step.
GenSucceeds(t) ==
    /\ gen[t].pc = "write"
    /\ gen'[t].pc = "idle"
    /\ IF t = "main" THEN initGen' = "ok" ELSE ~wgenFailed'

\* C13: a successful genIndexHTML leaves in index.html the template text
\* with the selector fragment in the marker's place and everything else of
\* the template as it was, and nothing besides: no part of the previous
\* page stays and nothing is appended to it.
C13_WholeReplacement ==
    [][\A t \in Threads :
         GenSucceeds(t)
         => indexHTML'.data = BeforeMarker(gen[t].tplData)
                              \o genSelectHTML(Port, gen[t].paths)
                              \o AfterMarker(gen[t].tplData)]_vars

\* a regeneration over the emptied api directory has replaced a page
\* with the short page of no documents, tail of the template included
C13_Witness ==
    /\ regens = 1
    /\ watcherPc = "idle"
    /\ ~wgenFailed
    /\ docs = {}
    /\ tpl = <<"<html>", Marker, "</html>">>
    /\ indexHTML.data = <<"<html>", "<select>", "</select>", "</html>">>

\* C14 (as claimed): once the listener has returned and Run is in its
\* deferred send, the handshake can always complete: the send can be taken
\* now, or the watcher is still on its way to (or back to) the loop that
\* receives from done; whatever state the watcher was in, Run is never left
\* sending with nobody who will ever receive.
C14_Original ==
    (exitCode = -1 /\ mainPc = "sending")
    => (ENABLED RunDeferSend \/ watcherPc \in {"starting", "callback", "generating"})

\* C15: genIndexHTML's own writes to index.html raise no event: a step that
\* changes index.html queues nothing, a step that queues an event is no step
\* of genIndexHTML, and so the callback has never regenerated more often
\* than events were raised by changes from outside.
C15_NoSelfTrigger ==
    /\ [](regens <= emitted /\ Len(events) <= emitted)
    /\ [][/\ (indexHTML' # indexHTML => events' = events /\ emitted' = emitted)
          /\ (emitted' # emitted => gen' = gen /\ indexHTML' = indexHTML)]_vars

\* one change from outside, one successful regeneration, and the watcher is
\* idle again with nothing queued
C15_Witness ==
    /\ mainPc = "serving"
    /\ watcherPc = "idle"
    /\ emitted = 1
    /\ regens = 1
    /\ ~wgenFailed
    /\ events = <<>>
    /\ indexHTML.data = lastGood

\* C16: every genIndexHTML call reads index.tpl and scans the api directory
\* anew and keeps nothing from call to call: the template it holds is
\* index.tpl as it is at the read, the paths are the documents as they are
\* at the scan, what it writes is rendered from these two, and a finished
\* call leaves nothing behind in its locals.
C16_FreshEveryCycle ==
    /\ [](\A t \in Threads : gen[t].pc = "idle" => gen[t] = IdleGen)
    /\ [][\A t \in Threads :
            /\ (gen[t].pc = "read" /\ gen'[t].pc = "scan"
                  => gen'[t].tplData = tpl)
            /\ (gen[t].pc = "scan" /\ gen'[t].pc = "open"
                  => gen'[t].paths = ScanSwaggerDocs(docs))
            /\ (GenSucceeds(t)
                  => indexHTML'.data = BeforeMarker(gen[t].tplData)
                                       \o genSelectHTML(Port, gen[t].paths)
                                       \o AfterMarker(gen[t].tplData))]_vars

\* index.tpl was edited after the page in place was written, and the
\* regeneration now running has read the edited template
C16_Witness ==
    /\ gen["watcher"].pc = "scan"
    /\ gen["watcher"].tplData = tpl
    /\ indexHTML.data = lastGood
    /\ IsComplete(indexHTML.data)
    /\ \A S \in SUBSET Docs :
         indexHTML.data # RenderHTML(Port, tpl, ScanSwaggerDocs(S))

\* C17: Run never returns nil: when Run has returned, its error is the
\* initial generation's or the listener's, so a process that went through
\* Run never leaves with code 0, and leaves with code 3.
C17_RunNeverNil ==
    /\ (mainPc = "returned" => runErr \in {"gen", "listen"})
    /\ (runErr = "gen" => initGen = "err")
    /\ (runErr = "listen" => initGen = "ok")
    /\ exitCode # 0
    /\ (mainPc = "exited" /\ initGen # "pending" => exitCode = 3)

\* the listener returned, the handshake was made, and main left with code 3
C17_Witness ==
    /\ mainPc = "exited"
    /\ exitCode = 3
    /\ runErr = "listen"
    /\ doneTaken = 1

====
